---- MODULE Spec2Model ----
(***************************************************************************)
(* Citation extraction and classification engine of streamlit_app.py.      *)
(*                                                                         *)
(* A text is a sequence of one-character strings.  The regular expressions *)
(* of the source are kept as data (sequences of items) and run by a        *)
(* backtracking matcher with the priorities of Python's re module: greedy  *)
(* repetitions try the longest run first, lazy ones the shortest, and the  *)
(* leftmost start wins.                                                    *)
(***************************************************************************)
EXTENDS Integers, Sequences, FiniteSets, TLC

(***************************************************************************)
(* Character classes.  A class is a set of characters, possibly negated.   *)
(***************************************************************************)
Digit == {"0", "1", "2", "3", "4", "5", "6", "7", "8", "9"}

Whitespace == {" ", "\n", "\t", "\r"}

LowerCase == <<"a", "b", "c", "d", "e", "f", "g", "h", "i", "j", "k", "l", "m",
               "n", "o", "p", "q", "r", "s", "t", "u", "v", "w", "x", "y", "z">>

UpperCase == <<"A", "B", "C", "D", "E", "F", "G", "H", "I", "J", "K", "L", "M",
               "N", "O", "P", "Q", "R", "S", "T", "U", "V", "W", "X", "Y", "Z">>

\* re.IGNORECASE: a letter matches in either case.
BothCases(c) ==
    {c} \cup {LowerCase[j] : j \in {i \in 1..Len(LowerCase) : UpperCase[i] = c}}
        \cup {UpperCase[j] : j \in {i \in 1..Len(UpperCase) : LowerCase[i] = c}}

Cls(S) == [neg |-> FALSE, s |-> S]

NotCls(S) == [neg |-> TRUE, s |-> S]

\* "." under re.DOTALL matches every character, the newline included.
AnyChar == NotCls({})

InCls(c, cls) == (c \in cls.s) # cls.neg

(***************************************************************************)
(* Regular expression items.                                               *)
(***************************************************************************)
Rep(cls, lo, many, lazy) ==
    [k |-> "rep", cls |-> cls, min |-> lo, many |-> many, lazy |-> lazy]

One(cls) == Rep(cls, 1, FALSE, FALSE)

Opt(cls) == Rep(cls, 0, FALSE, FALSE)

Star(cls) == Rep(cls, 0, TRUE, FALSE)

Plus(cls) == Rep(cls, 1, TRUE, FALSE)

StarLazy(cls) == Rep(cls, 0, TRUE, TRUE)

PlusLazy(cls) == Rep(cls, 1, TRUE, TRUE)

Open(g) == [k |-> "open", g |-> g]

Close(g) == [k |-> "close", g |-> g]

\* \Z : only at the end of the text.
EndOfText == [k |-> "Z"]

\* $ without re.MULTILINE: at the end, or just before a final newline.
Dollar == [k |-> "dollar"]

\* (?=a|b) : zero-width, succeeds when one alternative matches here.
LookAhead(alts) == [k |-> "look", alts |-> alts]

\* (?:sub)? : greedy optional group.
OptGroup(sub) == [k |-> "opt", sub |-> sub]

L(c) == One(Cls({c}))

\* a literal string, case-sensitive
Lit(s) == [i \in 1..Len(s) |-> One(Cls({s[i]}))]

\* a literal string under re.IGNORECASE
LitI(s) == [i \in 1..Len(s) |-> One(Cls(BothCases(s[i])))]

(***************************************************************************)
(* The matcher.                                                            *)
(***************************************************************************)
NoCaps == [g \in 1..4 |-> [s |-> 0, e |-> 0]]

NoMatch == [ok |-> FALSE, start |-> 0, end |-> 0, caps |-> NoCaps]

SetMin(S) == CHOOSE m \in S : \A x \in S : m <= x

SetMax(S) == CHOOSE m \in S : \A x \in S : x <= m

\* the length of the longest run of characters of cls that starts at pos
RunLen(t, cls, pos) ==
    LET stops == {j \in pos..Len(t) : ~InCls(t[j], cls)}
    IN  IF stops = {} THEN Len(t) - pos + 1 ELSE SetMin(stops) - pos

\* the largest repetition count item it can take at pos
MaxCount(t, it, pos) ==
    IF it.many THEN RunLen(t, it.cls, pos)
    ELSE IF pos <= Len(t) /\ InCls(t[pos], it.cls) THEN 1 ELSE 0

\* Can items p[i..] of pattern p match text t at position pos?
RECURSIVE CanMatch(_, _, _, _)
CanMatch(t, p, i, pos) ==
    IF i > Len(p) THEN TRUE
    ELSE LET it == p[i] IN
      CASE it.k \in {"open", "close"} -> CanMatch(t, p, i + 1, pos)
        [] it.k = "Z" -> pos = Len(t) + 1 /\ CanMatch(t, p, i + 1, pos)
        [] it.k = "dollar" ->
             /\ pos = Len(t) + 1 \/ (pos = Len(t) /\ t[pos] = "\n")
             /\ CanMatch(t, p, i + 1, pos)
        [] it.k = "look" ->
             /\ \E a \in 1..Len(it.alts) : CanMatch(t, it.alts[a], 1, pos)
             /\ CanMatch(t, p, i + 1, pos)
        [] it.k = "opt" ->
             \/ CanMatch(t, it.sub \o SubSeq(p, i + 1, Len(p)), 1, pos)
             \/ CanMatch(t, p, i + 1, pos)
        [] it.k = "rep" ->
             \E k \in it.min..MaxCount(t, it, pos) : CanMatch(t, p, i + 1, pos + k)

\* The match of items p[i..] at pos that a backtracking matcher finds first,
\* given that there is one: a lazy repetition takes the smallest count that
\* lets the rest match, a greedy one the largest, an optional group is taken
\* when it can be.
RECURSIVE MatchAt(_, _, _, _, _)
MatchAt(t, p, i, pos, caps) ==
    IF i > Len(p)
    THEN [ok |-> TRUE, start |-> 0, end |-> pos, caps |-> caps]
    ELSE LET it == p[i] IN
      CASE it.k = "open" ->
             MatchAt(t, p, i + 1, pos, [caps EXCEPT ![it.g].s = pos])
        [] it.k = "close" ->
             MatchAt(t, p, i + 1, pos, [caps EXCEPT ![it.g].e = pos])
        [] it.k \in {"Z", "dollar", "look"} -> MatchAt(t, p, i + 1, pos, caps)
        [] it.k = "opt" ->
             LET taken == it.sub \o SubSeq(p, i + 1, Len(p))
             IN  IF CanMatch(t, taken, 1, pos) THEN MatchAt(t, taken, 1, pos, caps)
                 ELSE MatchAt(t, p, i + 1, pos, caps)
        [] it.k = "rep" ->
             LET ks == {k \in it.min..MaxCount(t, it, pos) : CanMatch(t, p, i + 1, pos + k)}
                 k == IF it.lazy THEN SetMin(ks) ELSE SetMax(ks)
             IN  MatchAt(t, p, i + 1, pos + k, caps)

\* re.search from position from: the leftmost start at which p matches.
SearchFrom(t, p, from) ==
    LET starts == {s \in from..(Len(t) + 1) : CanMatch(t, p, 1, s)}
    IN  IF starts = {} THEN NoMatch
        ELSE [MatchAt(t, p, 1, SetMin(starts), NoCaps) EXCEPT !.start = SetMin(starts)]

Search(t, p) == SearchFrom(t, p, 1)

\* group g of match m
Group(t, m, g) == SubSeq(t, m.caps[g].s, m.caps[g].e - 1)

\* the non-overlapping matches of p in t, left to right
RECURSIVE MatchesFrom(_, _, _)
MatchesFrom(t, p, from) ==
    LET m == SearchFrom(t, p, from)
    IN  IF ~m.ok THEN <<>>
        ELSE <<m>> \o MatchesFrom(t, p, IF m.end > m.start THEN m.end ELSE m.end + 1)

\* re.findall for a pattern with n groups: the tuples of groups
FindAll(t, p, n) ==
    LET ms == MatchesFrom(t, p, 1)
    IN  [j \in 1..Len(ms) |-> [g \in 1..n |-> Group(t, ms[j], g)]]

\* re.sub(p, repl, t) for a constant replacement and a pattern that matches
\* no empty string
RECURSIVE SubFrom(_, _, _, _)
SubFrom(t, p, repl, from) ==
    LET m == SearchFrom(t, p, from)
    IN  IF ~m.ok THEN SubSeq(t, from, Len(t))
        ELSE SubSeq(t, from, m.start - 1) \o repl
             \o SubFrom(t, p, repl, m.end)

Sub(p, repl, t) == SubFrom(t, p, repl, 1)

(***************************************************************************)
(* Python string and integer helpers.                                      *)
(***************************************************************************)
RECURSIVE LStrip(_)
LStrip(s) == IF s # <<>> /\ Head(s) \in Whitespace THEN LStrip(Tail(s)) ELSE s

RECURSIVE RStrip(_)
RStrip(s) ==
    IF s # <<>> /\ s[Len(s)] \in Whitespace THEN RStrip(SubSeq(s, 1, Len(s) - 1)) ELSE s

\* str.strip()
Strip(s) == RStrip(LStrip(s))

\* needle in s
Contains(s, needle) ==
    \E i \in 1..(Len(s) - Len(needle) + 1) : SubSeq(s, i, i + Len(needle) - 1) = needle

\* s.replace(old, new) for a non-empty old
Replace(s, old, new) == Sub(Lit(old), new, s)

\* s.split("\n")
RECURSIVE SplitLines(_)
SplitLines(s) ==
    IF \A i \in 1..Len(s) : s[i] # "\n" THEN <<s>>
    ELSE LET i == CHOOSE j \in 1..Len(s) : s[j] = "\n" /\ \A h \in 1..(j - 1) : s[h] # "\n"
         IN  <<SubSeq(s, 1, i - 1)>> \o SplitLines(SubSeq(s, i + 1, Len(s)))

\* "\n".join(lines)
RECURSIVE JoinLines(_)
JoinLines(lines) ==
    IF lines = <<>> THEN <<>>
    ELSE IF Len(lines) = 1 THEN lines[1]
    ELSE lines[1] \o <<"\n">> \o JoinLines(Tail(lines))

\* str.isdigit()
IsDigit(s) == s # <<>> /\ \A i \in 1..Len(s) : s[i] \in Digit

DigitValue == "0" :> 0 @@ "1" :> 1 @@ "2" :> 2 @@ "3" :> 3 @@ "4" :> 4 @@
              "5" :> 5 @@ "6" :> 6 @@ "7" :> 7 @@ "8" :> 8 @@ "9" :> 9

DigitChar == <<"0", "1", "2", "3", "4", "5", "6", "7", "8", "9">>

\* int(s) for a string of decimal digits; leading zeros are dropped
RECURSIVE IntOf(_)
IntOf(s) ==
    IF s = <<>> THEN 0
    ELSE 10 * IntOf(SubSeq(s, 1, Len(s) - 1)) + DigitValue[s[Len(s)]]

\* str(n) for n >= 0, as interpolated into the f-string patterns
RECURSIVE StrOf(_)
StrOf(n) ==
    IF n < 10 THEN <<DigitChar[n + 1]>>
    ELSE StrOf(n \div 10) \o <<DigitChar[(n % 10) + 1]>>

\* the Python string of a sequence of characters
RECURSIVE PyStr(_)
PyStr(s) ==
    IF s = <<>> THEN ""
    ELSE IF Len(s) = 1 THEN s[1]
    ELSE PyStr(SubSeq(s, 1, Len(s) \div 2)) \o PyStr(SubSeq(s, (Len(s) \div 2) + 1, Len(s)))

(***************************************************************************)
(* get_sql_urls, classify_citation_type                                    *)
(***************************************************************************)
get_sql_urls ==
    { "https://dashboard.msme.gov.in/Udyam_Statewise.aspx",
      "https://data.adb.org/dataset/2023-asia-small-and-medium-sized-enterprise-monitor",
      "https://data.adb.org/media/10421/download",
      "https://data.rbi.org.in/#/dbie/indicators",
      "https://eaindustry.nic.in/download_data_1112.asp",
      "https://esankhyiki.mospi.gov.in/",
      "https://esankhyiki.mospi.gov.in/catalogue-main/catalogue?index=&page=0&product=NAS",
      "https://esankhyiki.mospi.gov.in/catalogue-main/catalogue?page=0&search=&product=NAS&q=NSDP",
      "https://esankhyiki.mospi.gov.in/macroindicators-main/macroindicators?product=asi",
      "https://esankhyiki.mospi.gov.in/macroindicators-main/macroindicators?product=asuse",
      "https://esankhyiki.mospi.gov.in/macroindicators-main/macroindicators?product=nss77&tab=table",
      "https://esankhyiki.mospi.gov.in/macroindicators-main/macroindicators?product=nss78",
      "https://esankhyiki.mospi.gov.in/macroindicators-main/macroindicators?product=plfs",
      "https://esankhyiki.mospi.gov.in/macroindicators?product=cpi",
      "https://labourbureau.gov.in/uploads/public/notice/MIL-07-2024pdf-bd246163a1b7f2b4515a6eedd5df650d.pdf",
      "https://mospi.gov.in/GSVA-NSVA",
      "https://niryat.gov.in/india",
      "https://residex.nhbonline.org.in/",
      "https://www.data.gov.in/resource/kisan-call-centre-kcc-transcripts-farmers-queries-answers",
      "https://www.gst.gov.in/download/gststatistics",
      "https://www.indiabudget.gov.in/budget2022-23/economicsurvey/doc/stat/tab43.pdf",
      "https://www.indiabudget.gov.in/economicsurvey/doc/Statistical-Appendix-in-English.pdf",
      "https://www.niftyindices.com/indices/equity/thematic-indices/nifty-sme-emerge",
      "https://www.rbi.org.in/scripts/Data_Sectoral_Deployment.aspx" }

\* a link that starts with an allow-list entry counts as a match
classify_citation_type_Prefix(citation_url) ==
    IF citation_url = <<>> THEN "Vector"
    ELSE IF \E k \in 1..Len(citation_url) : PyStr(SubSeq(citation_url, 1, k)) \in get_sql_urls
    THEN "SQL" ELSE "Vector"

classify_citation_type(citation_url) ==
    IF citation_url = <<>> THEN "Vector"
    ELSE IF PyStr(citation_url) \in get_sql_urls THEN "SQL" ELSE "Vector"

(***************************************************************************)
(* find_references_section                                                 *)
(***************************************************************************)
\* r"References\s*\n(.*)" and r"REFERENCES\s*\n(.*)", both searched with
\* re.IGNORECASE | re.DOTALL
references_patterns ==
    << LitI(<<"R", "e", "f", "e", "r", "e", "n", "c", "e", "s">>) \o <<Star(Cls(Whitespace)), L("\n"), Open(1), Star(AnyChar), Close(1)>>,
       LitI(<<"R", "E", "F", "E", "R", "E", "N", "C", "E", "S">>) \o <<Star(Cls(Whitespace)), L("\n"), Open(1), Star(AnyChar), Close(1)>> >>

IsHeadingLine(line) == Contains(line, <<"R", "e", "f", "e", "r", "e", "n", "c", "e", "s">>) \/ Contains(line, <<"R", "E", "F", "E", "R", "E", "N", "C", "E", "S">>)

\* the line scan keeps the last heading line instead of the first
find_references_section_LastLine(text) ==
    LET m1 == Search(text, references_patterns[1])
        m2 == Search(text, references_patterns[2])
        lines == SplitLines(text)
        hits == {i \in 1..Len(lines) : IsHeadingLine(lines[i])}
    IN  IF m1.ok THEN Strip(Group(text, m1, 1))
        ELSE IF m2.ok THEN Strip(Group(text, m2, 1))
        ELSE IF hits # {}
             THEN LET i == CHOOSE h \in hits : \A g \in hits : g <= h
                  IN  Strip(JoinLines(SubSeq(lines, i + 1, Len(lines))))
        ELSE text

\* nothing is returned when no heading is found
find_references_section_NoFallback(text) ==
    LET m1 == Search(text, references_patterns[1])
        m2 == Search(text, references_patterns[2])
        lines == SplitLines(text)
        hits == {i \in 1..Len(lines) : IsHeadingLine(lines[i])}
    IN  IF m1.ok THEN Strip(Group(text, m1, 1))
        ELSE IF m2.ok THEN Strip(Group(text, m2, 1))
        ELSE IF hits # {}
             THEN LET i == CHOOSE h \in hits : \A g \in hits : h <= g
                  IN  Strip(JoinLines(SubSeq(lines, i + 1, Len(lines))))
        ELSE <<>>

find_references_section(text) ==
    LET m1 == Search(text, references_patterns[1])
        m2 == Search(text, references_patterns[2])
        lines == SplitLines(text)
        hits == {i \in 1..Len(lines) : IsHeadingLine(lines[i])}
    IN  IF m1.ok THEN Strip(Group(text, m1, 1))
        ELSE IF m2.ok THEN Strip(Group(text, m2, 1))
        ELSE IF hits # {}
             THEN LET i == CHOOSE h \in hits : \A g \in hits : h <= g
                  IN  Strip(JoinLines(SubSeq(lines, i + 1, Len(lines))))
        ELSE text

(***************************************************************************)
(* count_citation_occurrences                                              *)
(***************************************************************************)
\* rf"\[{citation_num}\]"
OccurrencePattern(citation_num) == <<L("[")>> \o Lit(StrOf(citation_num)) \o <<L("]")>>

\* the occurrences are counted in the reference section only
count_citation_occurrences_RefsOnly(citation_num, text) ==
    Len(MatchesFrom(find_references_section(text), OccurrencePattern(citation_num), 1))

count_citation_occurrences(citation_num, text) ==
    Len(MatchesFrom(text, OccurrencePattern(citation_num), 1))

(***************************************************************************)
(* extract_citations_directly: the primary parser                          *)
(***************************************************************************)
\* the common prefix \s*\[([^\]]+)\]\s* of the citation grammars: the tag
TagPart(g) ==
    <<Star(Cls(Whitespace)), L("["), Open(g), Plus(NotCls({"]"})), Close(g), L("]"),
      Star(Cls(Whitespace))>>

\* ([^:]+?):\s*(.*?)(?=\n\[|\Z) with the headline in group g
HeadAndTail(g) ==
    <<Open(g), PlusLazy(NotCls({":"})), Close(g), L(":"), Star(Cls(Whitespace)),
      Open(g + 1), StarLazy(AnyChar), Close(g + 1),
      LookAhead(<< <<L("\n"), L("[")>>, <<EndOfText>> >>)>>

\* r"\[(\d+)\]\s*\[([^\]]+)\]\s*([^:]+?):\s*(.*?)(?=\n\[|\Z)", re.UNICODE | re.DOTALL
citation_pattern ==
    <<L("["), Open(1), Plus(Cls(Digit)), Close(1), L("]")>> \o TagPart(2) \o HeadAndTail(3)

\* r"\[15\]\s*\[([^\]]+)\]\s*([^:]+?):\s*(.*?)(?=\n\[|\Z)", re.UNICODE | re.DOTALL
test_pattern == Lit(<<"[", "1", "5", "]">>) \o TagPart(1) \o HeadAndTail(2)

\* r"(https?://[^\s]+)", case-sensitive
url_pattern ==
    <<Open(1)>> \o Lit(<<"h", "t", "t", "p">>) \o <<Opt(Cls({"s"}))>> \o Lit(<<":", "/", "/">>)
    \o <<Plus(NotCls(Whitespace)), Close(1)>>

\* r"\s+"
spaces_pattern == <<Plus(Cls(Whitespace))>>

\* lines 141-154: the raw matches, with the retry for citation 15
RawMatches(references_content) ==
    LET matches1 == FindAll(references_content, citation_pattern, 4)
        citation_15_found == \E j \in 1..Len(matches1) : matches1[j][1] = <<"1", "5">>
        test_matches == FindAll(references_content, test_pattern, 3)
    IN  IF ~citation_15_found /\ test_matches # <<>>
        THEN Append(matches1,
                    <<<<"1", "5">>, test_matches[1][1], test_matches[1][2], test_matches[1][3]>>)
        ELSE matches1

\* lines 158-171: the cleaned URL of one raw match
CleanUrl(url) ==
    LET stripped == Sub(spaces_pattern, <<>>, Strip(url))
        clean_url == IF Contains(stripped, <<"G", "o", "v", "t", "s", "o", "u", "r", "c", "e", ":">>) THEN Replace(stripped, <<"G", "o", "v", "t", "s", "o", "u", "r", "c", "e", ":">>, <<>>)
                     ELSE stripped
        url_match == Search(clean_url, url_pattern)
    IN  IF url_match.ok THEN Group(clean_url, url_match, 1) ELSE clean_url

CleanedMatches(matches1) ==
    [j \in 1..Len(matches1) |->
        <<matches1[j][1], matches1[j][2], matches1[j][3], CleanUrl(matches1[j][4])>>]

\* lines 181-187 and 321-329: whitespace cleanup of headline and link
CleanHeadline(headline) ==
    Replace(Replace(Sub(spaces_pattern, <<" ">>, Strip(headline)), <<"\n">>, <<" ">>),
            <<"\r">>, <<" ">>)

CleanLink(url) ==
    LET url_clean == IF url # <<>> THEN Sub(spaces_pattern, <<>>, Strip(url)) ELSE <<>>
    IN  Replace(Replace(url_clean, <<"\n">>, <<>>), <<"\r">>, <<>>)

\* lines 179-213: the record of one cleaned match
CitationData(match, text) ==
    LET citation_num == IntOf(match[1])
        web_internal == match[2]
        url_clean == CleanLink(match[4])
        web_internal_label ==
            IF Contains(web_internal, <<"W", "e", "b">>) THEN "Web"
            ELSE IF Contains(web_internal, <<"I", "n", "t", "e", "r", "n", "a", "l">>) THEN "Internal"
            ELSE IF url_clean # <<>> THEN "Web" ELSE "Internal"
    IN  [citation_number |-> citation_num,
         citation_headline |-> CleanHeadline(match[3]),
         citation_link |-> url_clean,
         web_internal |-> web_internal_label,
         total_occurrences |-> count_citation_occurrences(citation_num, text),
         vector_sql |-> IF web_internal_label = "Internal"
                        THEN classify_citation_type(url_clean)
                        ELSE "N/A"]

\* the keys of an insertion-ordered dict, kept as a sequence of records
Numbers(records) == {records[j].citation_number : j \in 1..Len(records)}

IndexOf(records, n) == CHOOSE j \in 1..Len(records) : records[j].citation_number = n

\* lines 215-227: keep the better of the stored record and the new one
ChooseBest(citation_dict, citation_data) ==
    IF citation_data.citation_number \notin Numbers(citation_dict)
    THEN Append(citation_dict, citation_data)
    ELSE LET j == IndexOf(citation_dict, citation_data.citation_number)
             current == citation_dict[j]
         IN  IF citation_data.citation_link # <<>> /\ current.citation_link = <<>>
             THEN [citation_dict EXCEPT ![j] = citation_data]
             ELSE IF Len(citation_data.citation_headline) > Len(current.citation_headline)
             THEN [citation_dict EXCEPT ![j] = citation_data]
             ELSE citation_dict

(***************************************************************************)
(* extract_citations_directly: the gap filler                              *)
(***************************************************************************)
\* r"\[(\d+)\]"
bracket_pattern == <<L("["), Open(1), Plus(Cls(Digit)), Close(1), L("]")>>

\* line 240: int(match) <= 100
MaxBracketNumber == 100

\* the range check also drops the number zero
SeenBrackets_Positive(references_content) ==
    LET bracket_matches == FindAll(references_content, bracket_pattern, 1)
    IN  {IntOf(bracket_matches[j][1]) :
            j \in {i \in 1..Len(bracket_matches) :
                      /\ IsDigit(bracket_matches[i][1])
                      /\ 1 <= IntOf(bracket_matches[i][1])
                      /\ IntOf(bracket_matches[i][1]) <= MaxBracketNumber}}

\* lines 236-241
SeenBrackets(references_content) ==
    LET bracket_matches == FindAll(references_content, bracket_pattern, 1)
    IN  {IntOf(bracket_matches[j][1]) :
            j \in {i \in 1..Len(bracket_matches) :
                      /\ IsDigit(bracket_matches[i][1])
                      /\ IntOf(bracket_matches[i][1]) <= MaxBracketNumber}}

\* line 244
MaxCitationNum(seen_brackets) == IF seen_brackets # {} THEN SetMax(seen_brackets) ELSE 0

\* the numbers between 1 and the maximum are not forced in
WithForced_SeenOnly(seen_brackets, seen_citations) == seen_brackets

\* lines 247-249
WithForced(seen_brackets, seen_citations) ==
    seen_brackets \cup {n \in 1..MaxCitationNum(seen_brackets) : n \notin seen_citations}

\* (https?://[^\s]+) under re.IGNORECASE, in group g
UrlGroupI(g) ==
    <<Open(g)>> \o LitI(<<"h", "t", "t", "p">>) \o <<Opt(Cls(BothCases("s")))>> \o Lit(<<":", "/", "/">>)
    \o <<Plus(NotCls(Whitespace)), Close(g)>>

\* rf"\[{citation_num}\]"
NumberPart(citation_num) == <<L("[")>> \o Lit(StrOf(citation_num)) \o <<L("]")>>

\* lines 257-262, all used with re.IGNORECASE | re.DOTALL | re.UNICODE
citation_context_patterns(citation_num) ==
    << \* \[n\]\s*\[([^\]]+)\]\s*([^:]+):\s*(https?://[^\s]+)
       NumberPart(citation_num) \o TagPart(1)
         \o <<Open(2), Plus(NotCls({":"})), Close(2), L(":"), Star(Cls(Whitespace))>>
         \o UrlGroupI(3),
       \* \[n\]\s*\[([^\]]+)\]\s*(.+?)\n(https?://[^\s]+)
       NumberPart(citation_num) \o TagPart(1)
         \o <<Open(2), PlusLazy(AnyChar), Close(2), L("\n")>> \o UrlGroupI(3),
       \* \[n\]\s*\[([^\]]+)\]\s*([^:]+):\s*$
       NumberPart(citation_num) \o TagPart(1)
         \o <<Open(2), Plus(NotCls({":"})), Close(2), L(":"), Star(Cls(Whitespace)), Dollar>>,
       \* \[n\]\s*\[([^\]]+)\]\s*(.+?)(?:\s*https?://[^\s\)]+)?
       NumberPart(citation_num) \o TagPart(1)
         \o <<Open(2), PlusLazy(AnyChar), Close(2),
              OptGroup(<<Star(Cls(Whitespace))>> \o LitI(<<"h", "t", "t", "p">>) \o <<Opt(Cls(BothCases("s")))>>
                       \o Lit(<<":", "/", "/">>) \o <<Plus(NotCls(Whitespace \cup {")"}))>>)>> >>

\* the number of groups of each context pattern: len(context)
ContextGroups == <<3, 3, 2, 2>>

\* line 296: \[n\]\s*\[([^\]]+)\]\s*([^:]+):\s*\n\s*(https?://[^\s]+)
next_line_pattern(citation_num) ==
    NumberPart(citation_num) \o TagPart(1)
      \o <<Open(2), Plus(NotCls({":"})), Close(2), L(":"), Star(Cls(Whitespace)), L("\n"),
           Star(Cls(Whitespace))>>
      \o UrlGroupI(3)

\* line 306: \[n\]\s*\[([^\]]+)\]\s*([^:]+):\s*\n(https?://[^\s]+)
simple_pattern(citation_num) ==
    NumberPart(citation_num) \o TagPart(1)
      \o <<Open(2), Plus(NotCls({":"})), Close(2), L(":"), Star(Cls(Whitespace)), L("\n")>>
      \o UrlGroupI(3)

\* the placeholder headline misspelt
MissingCitation_Typo == <<"M", "i", "s", "s", "i", "n", "g", " ", "C", "i", "t", "a", "t", "i", "o", "n">>

\* line 264
MissingCitation == <<"M", "i", "s", "s", "i", "n", "g", " ", "c", "i", "t", "a", "t", "i", "o", "n">>

\* lines 264-315: headline, link and origin found for a number; found is the
\* index of the first context pattern that matches (0 if none), and
\* context_matches[0] is the leftmost match, which Search returns
GapContext(citation_num, references_content) ==
    LET pats == citation_context_patterns(citation_num)
        hit == {j \in 1..Len(pats) : Search(references_content, pats[j]).ok}
        found == IF hit = {} THEN 0 ELSE CHOOSE j \in hit : \A h \in hit : j <= h
    IN  IF found = 0
        THEN [found |-> 0, headline |-> MissingCitation, citation_link |-> <<>>,
              web_internal |-> "Internal"]
        ELSE LET m == Search(references_content, pats[found])
                 label == IF Contains(Group(references_content, m, 1), <<"W", "e", "b">>)
                          THEN "Web" ELSE "Internal"
                 next_line == Search(references_content, next_line_pattern(citation_num))
                 simple == Search(references_content, simple_pattern(citation_num))
             IN  IF ContextGroups[found] = 3
                 THEN [found |-> found,
                       headline |-> Strip(Group(references_content, m, 2)),
                       citation_link |-> Strip(Group(references_content, m, 3)),
                       web_internal |-> label]
                 ELSE [found |-> found,
                       headline |-> Strip(Group(references_content, m, 2)),
                       citation_link |->
                           IF next_line.ok
                           THEN Strip(Group(references_content, next_line, 3))
                           ELSE IF simple.ok
                           THEN Strip(Group(references_content, simple, 3))
                           ELSE <<>>,
                       web_internal |-> label]

\* line 318: the quality guard
MinHeadlineLen == 3

\* the guard without its length test
Malformed_DigitsOnly(headline) == IsDigit(Strip(headline))

Malformed(headline) == Len(Strip(headline)) < MinHeadlineLen \/ IsDigit(Strip(headline))

\* lines 321-343: the record of a gap-filled number
GapData(citation_num, ctx, text) ==
    LET citation_link == CleanLink(ctx.citation_link)
    IN  [citation_number |-> citation_num,
         citation_headline |-> CleanHeadline(ctx.headline),
         citation_link |-> citation_link,
         web_internal |-> ctx.web_internal,
         total_occurrences |-> count_citation_occurrences(citation_num, text),
         vector_sql |-> classify_citation_type(citation_link)]

\* the result list left in insertion order
SortByNumber_Unsorted(records) == records

\* line 348: list.sort(key = citation_number), a stable sort
RECURSIVE SortByNumber(_)
SortByNumber(records) ==
    IF records = <<>> THEN <<>>
    ELSE LET sorted == SortByNumber(SubSeq(records, 1, Len(records) - 1))
             last == records[Len(records)]
             k == Cardinality({j \in 1..Len(sorted) :
                                  sorted[j].citation_number <= last.citation_number})
         IN  SubSeq(sorted, 1, k) \o <<last>> \o SubSeq(sorted, k + 1, Len(sorted))

(***************************************************************************)
(* The state machine: one run of extract_citations_directly(text).         *)
(***************************************************************************)
VARIABLES
    text,                \* the argument: the whole document text
    pc,                  \* the position in extract_citations_directly
    references_content,  \* line 135
    matches1,            \* lines 141-173: the cleaned matches not yet merged
    citation_dict,       \* line 176: the best record per number, in insertion order
    citations,           \* line 131: the result list
    seen_citations,      \* line 132
    seen_brackets,       \* line 239
    validation           \* main, lines 511-526: the message of the validation checks

vars == <<text, pc, references_content, matches1, citation_dict, citations,
          seen_citations, seen_brackets, validation>>

\* the number of blocks a document is made of
MaxBlocks == 2

\* the blocks of text the documents are made of
Blocks ==
    <<
       \* body text citing [1] twice and [2] once, then the heading
       <<"a", " ", "[", "1", "]", " ", "b", " ", "[", "1", "]", "[", "2", "]", "\n", "R", "e", "f", "e", "r", "e", "n", "c", "e", "s">>,
       \* a line that only the line scan recognises as a heading
       <<"S", "e", "e", " ", "R", "e", "f", "e", "r", "e", "n", "c", "e", "s", " ", "[", "2", "]", ":">>,
       \* a well-formed internal entry
       <<"[", "1", "]", " ", "[", "I", "n", "t", "e", "r", "n", "a", "l", "]", " ", "A", "b", ":", " ", "h", "t", "t", "p", ":", "/", "/", "a">>,
       \* an entry for 1 with a longer headline and no link
       <<"[", "1", "]", " ", "[", "W", "e", "b", "]", " ", "A", "b", "c", "d", ":">>,
       \* an internal entry whose link is on the allow-list
       <<"[", "2", "]", " ", "[", "I", "n", "t", "e", "r", "n", "a", "l", "]", " ", "T", ":", " ", "h", "t", "t", "p", "s", ":", "/", "/", "n", "i", "r", "y", "a", "t", ".", "g", "o", "v", ".", "i", "n", "/", "i", "n", "d", "i", "a">>,
       \* a bare bracket reference inside running text
       <<"s", "e", "e", " ", "[", "3", "]">>,
       \* two entries on one line
       <<"[", "1", "]", " ", "[", "W", "e", "b", "]", " ", "A", ":", " ", "h", "t", "t", "p", ":", "/", "/", "a", " ", "[", "2", "]", " ", "[", "W", "e", "b", "]", " ", "B", "c", "d", ":", " ", "h", "t", "t", "p", ":", "/", "/", "b">>,
       \* a bare bracket above the limit
       <<"[", "1", "0", "1", "]">>,
       \* a bare bracket zero
       <<"[", "0", "]">>,
       \* an entry without a colon
       <<"[", "4", "]", " ", "[", "W", "e", "b", "]", " ", "x", "y", "z">>,
       \* entry 15 behind another entry on the same line
       <<"[", "1", "]", " ", "[", "W", "e", "b", "]", " ", "A", ":", " ", "h", "t", "t", "p", ":", "/", "/", "a", " ", "[", "1", "5", "]", " ", "[", "S", "r", "c", "]", " ", "B", ":", " ", "h", "t", "t", "p", ":", "/", "/", "b">>,
       \* an entry with the colon right after the tag and the link on the next line
       <<"[", "2", "]", " ", "[", "W", "e", "b", "]", ":", "a", "b", "c", "\n", "h", "t", "t", "p", ":", "/", "/", "a">>,
       \* an entry without link behind another entry on the same line
       <<"[", "1", "]", " ", "[", "W", "e", "b", "]", " ", "A", ":", " ", "h", "t", "t", "p", ":", "/", "/", "a", " ", "[", "5", "]", " ", "[", "I", "n", "t", "e", "r", "n", "a", "l", "]", " ", "a", " ", "b", ":">>,
       \* an entry numbered with a leading zero
       <<"[", "0", "2", "]", " ", "[", "W", "e", "b", "]", " ", "Z", "e", "r", "o", ":", " ", "h", "t", "t", "p", ":", "/", "/", "z">>,
       \* an entry with a headline of digits behind another entry on the same line
       <<"[", "1", "]", " ", "[", "W", "e", "b", "]", " ", "A", ":", " ", "h", "t", "t", "p", ":", "/", "/", "a", " ", "[", "2", "]", " ", "[", "W", "e", "b", "]", " ", "1", "2", "3", ":", " ", "h", "t", "t", "p", ":", "/", "/", "b">>
    >>

Documents ==
    UNION {{JoinLines([j \in 1..n |-> Blocks[f[j]]]) : f \in [1..n -> 1..Len(Blocks)]} :
              n \in 1..MaxBlocks}

Init ==
    /\ text \in Documents
    /\ pc = "start"
    /\ references_content = <<>>
    /\ matches1 = <<>>
    /\ citation_dict = <<>>
    /\ citations = <<>>
    /\ seen_citations = {}
    /\ seen_brackets = {}
    /\ validation = "pending"

\* line 135
FindReferences ==
    /\ pc = "start"
    /\ references_content' = find_references_section(text)
    /\ pc' = "parse"
    /\ UNCHANGED <<validation, text, matches1, citation_dict, citations, seen_citations, seen_brackets>>

\* lines 140-173
ParsePrimary ==
    /\ pc = "parse"
    /\ matches1' = CleanedMatches(RawMatches(references_content))
    /\ pc' = "merge"
    /\ UNCHANGED <<validation, text, references_content, citation_dict, citations, seen_citations,
                   seen_brackets>>

\* lines 178-227: one iteration of the loop over the cleaned matches
MergeMatch ==
    /\ pc = "merge"
    /\ matches1 # <<>>
    /\ citation_dict' = ChooseBest(citation_dict, CitationData(Head(matches1), text))
    /\ matches1' = Tail(matches1)
    /\ UNCHANGED <<validation, text, pc, references_content, citations, seen_citations, seen_brackets>>

\* lines 230-249: the parsed records join the result; the numbers that need
\* a record are collected
CollectBrackets ==
    /\ pc = "merge"
    /\ matches1 = <<>>
    /\ citations' = citation_dict
    /\ seen_citations' = Numbers(citation_dict)
    /\ seen_brackets' = WithForced(SeenBrackets(references_content), Numbers(citation_dict))
    /\ pc' = "fill"
    /\ UNCHANGED <<validation, text, references_content, matches1, citation_dict>>

\* lines 252-345: one iteration of the loop over seen_brackets.  The result is
\* sorted afterwards and the iterations do not depend on each other, so the
\* numbers are taken smallest first.
FillGap ==
    /\ pc = "fill"
    /\ seen_brackets \ seen_citations # {}
    /\ LET citation_num == SetMin(seen_brackets \ seen_citations)
           ctx == GapContext(citation_num, references_content)
       IN  /\ seen_citations' = seen_citations \cup {citation_num}
           /\ citations' = IF Malformed(ctx.headline) THEN citations
                           ELSE Append(citations, GapData(citation_num, ctx, text))
    /\ UNCHANGED <<validation, text, pc, references_content, matches1, citation_dict, seen_brackets>>

\* lines 347-350
SortAndReturn ==
    /\ pc = "fill"
    /\ seen_brackets \ seen_citations = {}
    /\ citations' = SortByNumber(citations)
    /\ pc' = "done"
    /\ UNCHANGED <<validation, text, references_content, matches1, citation_dict, seen_citations,
                   seen_brackets>>

\* the sum of the occurrence counts of a list of records
RECURSIVE SumOccurrences(_)
SumOccurrences(records) ==
    IF records = <<>> THEN 0
    ELSE Head(records).total_occurrences + SumOccurrences(Tail(records))

\* the validation with the SQL and Vector records of any label
ValidationChecks_AnyLabel(records) ==
    LET IsInternal(c) == c.web_internal = "Internal"
        IsVector(c) == c.vector_sql = "Vector"
        IsSql(c) == c.vector_sql = "SQL"
    IN  /\ SumOccurrences(SelectSeq(records, IsInternal))
              = SumOccurrences(SelectSeq(records, IsSql)) + SumOccurrences(SelectSeq(records, IsVector))
        /\ Len(SelectSeq(records, IsInternal))
              = Len(SelectSeq(records, IsSql)) + Len(SelectSeq(records, IsVector))

\* main, lines 409-443 and 512-517: internal_total_check and internal_unique_check
ValidationChecks(records) ==
    LET IsInternal(c) == c.web_internal = "Internal"
        IsInternalVector(c) == c.web_internal = "Internal" /\ c.vector_sql = "Vector"
        IsInternalSql(c) == c.web_internal = "Internal" /\ c.vector_sql = "SQL"
        unique_internal_count == Len(SelectSeq(records, IsInternal))
        total_internal_occurrences == SumOccurrences(SelectSeq(records, IsInternal))
        internal_vector_citations == SelectSeq(records, IsInternalVector)
        internal_sql_citations == SelectSeq(records, IsInternalSql)
        internal_vector_occurrences == SumOccurrences(internal_vector_citations)
        internal_sql_occurrences == SumOccurrences(internal_sql_citations)
        internal_total_check ==
            total_internal_occurrences = internal_sql_occurrences + internal_vector_occurrences
        internal_unique_check ==
            unique_internal_count = Len(internal_sql_citations) + Len(internal_vector_citations)
    IN  internal_total_check /\ internal_unique_check

\* main, lines 396-526: with a non-empty result the analytics are computed and
\* the validation message is shown
Validate ==
    /\ pc = "done"
    /\ validation = "pending"
    /\ citations # <<>>
    /\ validation' = IF ValidationChecks(citations) THEN "passed" ELSE "error"
    /\ UNCHANGED <<text, pc, references_content, matches1, citation_dict, citations,
                   seen_citations, seen_brackets>>

Next ==
    \/ FindReferences
    \/ ParsePrimary
    \/ MergeMatch
    \/ CollectBrackets
    \/ FillGap
    \/ SortAndReturn
    \/ Validate

Spec == Init /\ [][Next]_vars

(***************************************************************************)
(* Properties.                                                             *)
(***************************************************************************)
\* the records that the gap filler added: their number was not parsed
GapFilled == {j \in 1..Len(citations) : citations[j].citation_number \notin Numbers(citation_dict)}

\* the numbers of all bare bracket tokens [n] of the reference section
BareNumbers ==
    LET bracket_matches == FindAll(references_content, bracket_pattern, 1)
    IN  {IntOf(bracket_matches[j][1]) : j \in 1..Len(bracket_matches)}

\* the number of literal occurrences of the token [n] in t
LiteralCount(n, t) ==
    LET token == <<"[">> \o StrOf(n) \o <<"]">>
    IN  Cardinality({i \in 1..(Len(t) - Len(token) + 1) :
                        SubSeq(t, i, i + Len(token) - 1) = token})

\* neither heading pattern matches the text, but some line contains the
\* heading word
LineScanCase ==
    /\ ~Search(text, references_patterns[1]).ok
    /\ ~Search(text, references_patterns[2]).ok
    /\ \E i \in 1..Len(SplitLines(text)) : IsHeadingLine(SplitLines(text)[i])

\* the text holds the word "references" in no spelling
NoHeading ==
    LET word == <<"r", "e", "f", "e", "r", "e", "n", "c", "e", "s">>
    IN  \A i \in 1..Len(text) :
            \E k \in 1..Len(word) :
                i + k - 1 > Len(text) \/ text[i + k - 1] \notin BothCases(word[k])

\* C1: the returned list holds at most one record per citation number and
\* is in strictly ascending order of citation_number.
C1_UniqueAndSorted ==
    pc = "done" =>
        \A i, j \in 1..Len(citations) :
            i < j => citations[i].citation_number < citations[j].citation_number

\* a finished run in which a number was matched more than once by the
\* primary parser and a further number was gap-filled
C1_Witness ==
    /\ pc = "done"
    /\ Len(CleanedMatches(RawMatches(references_content))) > Len(citation_dict)
    /\ GapFilled # {}

\* C2: for every returned record, parsed or gap-filled, category is "N/A"
\* if and only if origin is Web.
C2_NotApplicableIffWeb ==
    pc = "done" =>
        \A j \in 1..Len(citations) :
            (citations[j].vector_sql = "N/A") <=> (citations[j].web_internal = "Web")

\* C3: when a match arrives for a number that already has a record, the one
\* with a non-empty link is kept over the one without; only when both have a
\* link or both lack one does the strictly longer headline win, the first
\* seen on a tie.
C3_LinkBeforeHeadline ==
    [][(pc = "merge" /\ matches1 # <<>> /\ pc' = "merge"
        /\ CitationData(Head(matches1), text).citation_number \in Numbers(citation_dict))
       => LET candidate == CitationData(Head(matches1), text)
              j == IndexOf(citation_dict, candidate.citation_number)
              current == citation_dict[j]
          IN  citation_dict'[j] =
                 IF (candidate.citation_link # <<>>) # (current.citation_link # <<>>)
                 THEN (IF candidate.citation_link # <<>> THEN candidate ELSE current)
                 ELSE IF Len(candidate.citation_headline) > Len(current.citation_headline)
                 THEN candidate
                 ELSE current]_vars

\* C4: every number from 1 to the largest bare bracket number (at most 100)
\* of the reference section has a record, or was not parsed and its
\* gap-filled headline was rejected by the quality guard.
C4_NoInteriorGap ==
    pc = "done" =>
        \A n \in 1..MaxCitationNum({b \in BareNumbers : b <= MaxBracketNumber}) :
            \/ n \in Numbers(citations)
            \/ /\ n \notin Numbers(citation_dict)
               /\ Malformed(GapContext(n, references_content).headline)

\* a finished run in which a number that is no bare bracket got a record and
\* another number below the maximum was rejected by the quality guard
C4_Witness ==
    /\ pc = "done"
    /\ \E n \in 1..MaxCitationNum({b \in BareNumbers : b <= MaxBracketNumber}) :
          n \notin BareNumbers /\ n \in Numbers(citations)
    /\ \E n \in 1..MaxCitationNum({b \in BareNumbers : b <= MaxBracketNumber}) :
          n \notin Numbers(citations)

\* C5 as stated: every number that appears as a bare bracket [n] in the
\* reference section has a record, unless its synthesized headline fails the
\* quality guard.
C5_EveryBareNumber ==
    pc = "done" =>
        \A n \in BareNumbers :
            \/ n \in Numbers(citations)
            \/ Malformed(GapContext(n, references_content).headline)

\* C5 amended: every number not above 100 that appears as a bare bracket [n]
\* in the reference section has a record, unless its synthesized headline
\* fails the quality guard.
C5_EveryBareNumberUpTo100 ==
    pc = "done" =>
        \A n \in BareNumbers :
            n <= 100 =>
                \/ n \in Numbers(citations)
                \/ Malformed(GapContext(n, references_content).headline)

\* a finished run with a bare bracket above 100 that got no record and a bare
\* bracket below that the gap filler gave a record
C5_Witness ==
    /\ pc = "done"
    /\ \E n \in BareNumbers : n > 100 /\ n \notin Numbers(citations)
    /\ \E j \in GapFilled : citations[j].citation_number \in BareNumbers

\* C6: total_occurrences of every returned record is the number of literal
\* occurrences of the token [number] in the entire document text.
C6_OccurrencesInWholeText ==
    pc = "done" =>
        \A j \in 1..Len(citations) :
            citations[j].total_occurrences = LiteralCount(citations[j].citation_number, text)

\* a finished run where the reference section is a part of the text and a
\* parsed and a gap-filled record are cited more often in the text than in
\* the reference section
C6_Witness ==
    /\ pc = "done"
    /\ references_content # text
    /\ \E j \in 1..Len(citations) \ GapFilled :
          /\ citations[j].total_occurrences >= 3
          /\ LiteralCount(citations[j].citation_number, references_content) = 1
    /\ \E j \in GapFilled :
          citations[j].total_occurrences
              > LiteralCount(citations[j].citation_number, references_content)

\* C7: an Internal record has category SQL exactly when its link is, as a
\* whole string, an entry of the allow-list, and Vector otherwise.
C7_InternalCategory ==
    pc = "done" =>
        \A j \in 1..Len(citations) :
            citations[j].web_internal = "Internal" =>
                citations[j].vector_sql =
                    IF PyStr(citations[j].citation_link) \in get_sql_urls
                    THEN "SQL" ELSE "Vector"

\* a finished run with an Internal record of category SQL and an Internal
\* record whose link is not empty and not on the allow-list
C7_Witness ==
    /\ pc = "done"
    /\ \E j \in 1..Len(citations) :
          citations[j].web_internal = "Internal" /\ citations[j].vector_sql = "SQL"
    /\ \E j \in 1..Len(citations) :
          /\ citations[j].web_internal = "Internal"
          /\ citations[j].citation_link # <<>>
          /\ citations[j].vector_sql = "Vector"

C10_MissingCitationRecord ==
    pc = "done" =>
        \A n \in seen_brackets \ Numbers(citation_dict) :
            (\A g \in 1..Len(citation_context_patterns(n)) :
                ~Search(references_content, citation_context_patterns(n)[g]).ok)
            => \E j \in 1..Len(citations) :
                  /\ citations[j].citation_number = n
                  /\ citations[j].citation_headline = <<"M", "i", "s", "s", "i", "n", "g", " ", "c", "i", "t", "a", "t", "i", "o", "n">>
                  /\ citations[j].citation_link = <<>>
                  /\ citations[j].web_internal = "Internal"
                  /\ citations[j].vector_sql = "Vector"

\* a finished run with a bare bracket number, not parsed, that no fallback
\* grammar matches
C10_Witness ==
    /\ pc = "done"
    /\ \E n \in (seen_brackets \cap BareNumbers) \ Numbers(citation_dict) :
          /\ \A g \in 1..Len(citation_context_patterns(n)) :
                ~Search(references_content, citation_context_patterns(n)[g]).ok
          /\ n \in Numbers(citations)

\* C11: every record of the returned list has a citation number of at least 1,
\* whatever bracket numbers the reference section holds.
C11_NumberAtLeastOne ==
    pc = "done" =>
        \A j \in 1..Len(citations) : citations[j].citation_number >= 1

\* the http(s) token of a URL tail with its whitespace removed, or the empty
\* string when the tail holds no such token
HttpToken(url) ==
    LET stripped == Sub(spaces_pattern, <<>>, Strip(url))
        url_match == Search(stripped, url_pattern)
    IN  IF url_match.ok THEN Group(stripped, url_match, 1) ELSE <<>>

\* C12: the link of every record of the primary parser is the http(s) token
\* of the URL tail of one of the matches for its number, and so is empty when
\* that tail holds no http(s) token.
C12_LinkIsHttpTokenOrEmpty ==
    \A j \in 1..Len(citation_dict) :
        \E m \in 1..Len(RawMatches(references_content)) :
            /\ IntOf(RawMatches(references_content)[m][1]) = citation_dict[j].citation_number
            /\ citation_dict[j].citation_link = HttpToken(RawMatches(references_content)[m][4])

\* the number of characters of a headline that are not whitespace
NonSpaceCount(headline) ==
    Cardinality({i \in 1..Len(headline) : headline[i] \notin Whitespace})

\* C13 as stated: no gap-filled record has a headline with fewer than 3
\* non-space characters or made of digits only.
C13_ThreeNonSpaceCharacters ==
    \A j \in GapFilled :
        /\ NonSpaceCount(citations[j].citation_headline) >= MinHeadlineLen
        /\ ~IsDigit(citations[j].citation_headline)

\* C13, amended: no gap-filled record has a headline with fewer than 3
\* characters, inner spaces counted, or made of digits only.
C13_ThreeCharacters ==
    \A j \in GapFilled :
        /\ Len(citations[j].citation_headline) >= MinHeadlineLen
        /\ ~IsDigit(citations[j].citation_headline)

\* a finished run in which the guard discarded one number for its short
\* headline and one for its headline of digits, and let another gap-filled
\* record through
C13_Witness ==
    /\ pc = "done"
    /\ GapFilled # {}
    /\ \E n \in seen_brackets \ Numbers(citation_dict) :
          /\ Len(Strip(GapContext(n, references_content).headline)) < MinHeadlineLen
          /\ n \notin Numbers(citations)
    /\ \E n \in seen_brackets \ Numbers(citation_dict) :
          /\ IsDigit(Strip(GapContext(n, references_content).headline))
          /\ n \notin Numbers(citations)

\* C14: every Internal record has the category Vector or SQL, and the
\* validation of main never shows its error message.
C14_ValidationNeverFails ==
    /\ \A j \in 1..Len(citations) :
          citations[j].web_internal = "Internal" => citations[j].vector_sql \in {"Vector", "SQL"}
    /\ validation # "error"

\* the validation passed on a result with Internal records of both categories,
\* each cited in the text
C14_Witness ==
    /\ validation = "passed"
    /\ \E j, k \in 1..Len(citations) :
          /\ citations[j].web_internal = "Internal"
          /\ citations[j].vector_sql = "SQL"
          /\ citations[j].total_occurrences > 0
          /\ citations[k].web_internal = "Internal"
          /\ citations[k].vector_sql = "Vector"
          /\ citations[k].total_occurrences > 0

====
